---- MODULE Spec2Model ----
(***************************************************************************)
(* Conversation orchestration and escalation engine of ai_chat_bot:        *)
(* the per-user handler state machine (chat_handler.incoming_messages),    *)
(* the onboarding question engine (data_extractor), ticket creation and    *)
(* assignment (ticket, database.db), round-robin counsellor selection      *)
(* (counsellors_select_algo) and the retrying delivery loop (router).      *)
(*                                                                         *)
(* The specifications share the variables:                                 *)
(*   Spec       inbound messages handled one at a time                     *)
(*   SpecRR     round_robin called while the roster is administered        *)
(*   SpecRetry  one run of router.retry_with_backoff, attempt by attempt   *)
(*   SpecStore  the user store called directly                             *)
(*   SpecRRC    round_robin called by two threads, statement by statement  *)
(*   SpecConc   two messages of one user handled by two threads            *)
(*                                                                         *)
(* Persistence: database/db.py update_user (line 198) allowlists only      *)
(* handler, auth_key, gender and age_range, and db.get_last_memory and     *)
(* schema.sql are absent; chat_handler writes language, onboarding_level   *)
(* and the profile columns through users.update_user.  The columns of the  *)
(* users table are therefore taken from the callers (WritableFields).      *)
(***************************************************************************)
EXTENDS Integers, Sequences, FiniteSets, TLC

None == "None"

(***************************************************************************)
(* Finite universes                                                        *)
(***************************************************************************)
Users == {"u1"}
CounsellorNames == {"A", "B", "C"}
Modes == {"no_counsellor", "single_counsellor", "multi_counsellors_wp", "multi_counsellors_wp_web"}
Handlers == {"language_selector", "onboarding", "ai_bot", "counsellor"}
Languages == {"en", "fr"}

\* message bodies that inbound text messages carry
Texts == {"25", "-1", "female", "skip", "", "fr", "i fainted"}
MsgTypes == {"text", "reply", "document"}

(***************************************************************************)
(* The questionnaire (user_data.json): ordered keys with constraints.      *)
(***************************************************************************)
QuestionKeys == <<"age", "gender", "religious_background">>

Questions ==
  [ age |-> [type |-> "number", required |-> TRUE, min_value |-> 0, max_value |-> 120,
             min_length |-> 0, max_length |-> 0, options |-> {}],
    gender |-> [type |-> "choice", required |-> TRUE, min_value |-> 0, max_value |-> 0,
                min_length |-> 0, max_length |-> 0, options |-> {"male", "female"}],
    religious_background |-> [type |-> "text", required |-> FALSE, min_value |-> 0,
                              max_value |-> 0, min_length |-> 3, max_length |-> 6,
                              options |-> {}] ]

KeySet == {QuestionKeys[i] : i \in 1..Len(QuestionKeys)}

\* list.index: zero-based position of the key
IndexOf(key) == (CHOOSE i \in 1..Len(QuestionKeys) : QuestionKeys[i] = key) - 1

\* chat_handler.py field_mapping
field_mapping ==
  [ age |-> "age", gender |-> "gender", religious_background |-> "religious_background" ]

ProfileFields == {field_mapping[k] : k \in KeySet}

skip_values == {"skip", "passer", "prefer not to say", "prefere ne pas dire"}

\* columns of the users table that callers write through users.update_user
WritableFields == {"handler", "auth_key", "language", "onboarding_level"} \cup ProfileFields

(***************************************************************************)
(* data_extractor.set_next_question                                        *)
(***************************************************************************)
\* variant: "Done" is returned one question early
set_next_question_early(current) ==
  IF current = None THEN QuestionKeys[1]
  ELSE IF IndexOf(current) + 1 >= Len(QuestionKeys) - 1 THEN "Done"
  ELSE QuestionKeys[IndexOf(current) + 2]

set_next_question(current) ==
  IF current = None THEN QuestionKeys[1]
  ELSE IF IndexOf(current) + 1 = Len(QuestionKeys) THEN "Done"
  ELSE QuestionKeys[IndexOf(current) + 2]

(***************************************************************************)
(* Validation (the validate functions of data_extractor).  A result is    *)
(* [ok, err, value]: value is the sanitized value or None.                 *)
(***************************************************************************)
\* int(response.strip()): the bodies that parse, and their values
IsInt(s) == s \in {"25", "-1"}
IntOf(s) == IF s = "25" THEN 25 ELSE IF s = "-1" THEN 0 - 1 ELSE 0
\* len(response.strip())
StrLen(s) ==
  CASE s = "" -> 0
    [] s = "25" -> 2
    [] s = "-1" -> 2
    [] s = "female" -> 6
    [] s = "male" -> 4
    [] s = "skip" -> 4
    [] s = "fr" -> 2
    [] s = "i fainted" -> 9
    [] OTHER -> 1

Valid(v) == [ok |-> TRUE, err |-> None, value |-> v]
Invalid(e) == [ok |-> FALSE, err |-> e, value |-> None]

validate_number(response, c) ==
  IF ~IsInt(response) THEN Invalid("not_a_number")
  ELSE IF IntOf(response) < c.min_value THEN Invalid("below_min")
  ELSE IF IntOf(response) > c.max_value THEN Invalid("above_max")
  ELSE Valid(response)

validate_text(response, c) ==
  IF c.min_length # 0 /\ StrLen(response) < c.min_length THEN Invalid("too_short")
  ELSE IF c.max_length # 0 /\ StrLen(response) > c.max_length THEN Invalid("too_long")
  ELSE Valid(response)

validate_choice(response, c) ==
  IF response \in c.options THEN Valid(response) ELSE Invalid("not_an_option")

validate_user_response(response, key) ==
  IF response = "" THEN
      IF Questions[key].required THEN Invalid("required") ELSE Valid(None)
  ELSE CASE Questions[key].type = "number" -> validate_number(response, Questions[key])
         [] Questions[key].type = "text" -> validate_text(response, Questions[key])
         [] Questions[key].type = "choice" -> validate_choice(response, Questions[key])
         [] OTHER -> Valid(response)

(***************************************************************************)
(* State                                                                   *)
(***************************************************************************)
VARIABLES
  MODE,               \* chat_handler.MODE / db.MODE, fixed for a deployment
  users,              \* users table: user id -> row
  tickets,            \* tickets table: ticket id -> row
  tickets_assignment, \* tickets_assignment table, in insertion order
  roster,             \* counsellors table: usernames in row order
  current_ticket,     \* counsellors.current_ticket
  last_index,         \* round_robin.last_index (-1: attribute not yet set)
  rr_log,             \* round_robin calls so far: roster fetched and value returned
  roster_changes,     \* number of counsellors added or removed so far
  evt,                \* the operation performed last and what it sent and returned
  rt,                 \* the running retry_with_backoff call
  inflight            \* calls running concurrently: per thread, its position and locals

vars == <<MODE, users, tickets, tickets_assignment, roster, current_ticket,
          last_index, rr_log, roster_changes, evt, rt, inflight>>

\* variant: the user is left out of the id
TicketId_bare(u) == "00T"

\* ticket.create_ticket: ticket_id = f"00T{user}"
TicketId(u) == "00T" \o u
TicketIds == {TicketId(u) : u \in Users}

NoUser ==
  [exists |-> FALSE, handler |-> None, language |-> None, onboarding_level |-> None,
   profile |-> [f \in ProfileFields |-> None], auth_key |-> None]

\* what the language column holds in a freshly inserted row: 'en' when the column
\* was added by migration 1 (updates.py 207, DEFAULT 'en'), NULL when the table
\* definition of schema.sql declares it without a default
LanguageDefaults == {None, "en"}

\* db.save_user: INSERT INTO users (id, handler) VALUES (?, 'ai_bot')
save_user(language_default) ==
  [NoUser EXCEPT !.exists = TRUE, !.handler = "ai_bot", !.language = language_default]

NoTicket == [exists |-> FALSE, user |-> None, status |-> None, handler |-> None]

NoEvt ==
  [op |-> "none", user |-> None, msg |-> [type |-> None, cat |-> None, body |-> None],
   branch |-> None, raised |-> FALSE, sends |-> <<>>, ret |-> None, logged |-> <<>>,
   question_status |-> None]

\* inbound messages: text bodies, button replies (id "<category>_<n>", title) and
\* documents (body: the file name)
InboundMsgs ==
  {[type |-> "text", cat |-> None, body |-> t] : t \in Texts}
    \cup {[type |-> "reply", cat |-> "lang", body |-> l] : l \in Languages}
    \cup {[type |-> "reply", cat |-> k, body |-> t] : k \in KeySet, t \in {"female", "skip"}}
    \cup {[type |-> "document", cat |-> None, body |-> "file.pdf"]}

(***************************************************************************)
(* Outbound sends.  A send [to, kind] is one call of router.route_message  *)
(* (or of the chat app).  The result of a call matters to the handler only *)
(* in send_question, whose outcome is "sent", "text_failed" (the first     *)
(* call returned an error) or "options_failed" (the second one did).       *)
(***************************************************************************)
Sent(to, kind) == <<[to |-> to, kind |-> kind]>>

QOutcomes == {"sent", "text_failed", "options_failed"}

\* chat_handler.send_message: routes in no_counsellor and the multi modes only
send_message(to, kind) ==
  IF MODE \in {"no_counsellor", "multi_counsellors_wp", "multi_counsellors_wp_web"}
  THEN Sent(to, kind) ELSE <<>>

HasOptions(q) == Questions[q].options # {}

\* data_extractor.send_question: the text, then the options when the text went out
send_question_sends(u, q, out) ==
  Sent(u, "question:" \o q)
    \o (IF out # "text_failed" /\ HasOptions(q) THEN Sent(u, "options:" \o q) ELSE <<>>)

send_question_ok(q, out) == out = "sent" \/ (out = "options_failed" /\ ~HasOptions(q))

\* chat_handler resend_question (nested in incoming_messages)
resend_question(u, q, out) ==
  send_message(u, "resend_msg") \o send_question_sends(u, q, out)

(***************************************************************************)
(* Init                                                                    *)
(***************************************************************************)
InitRosters == {<<>>, <<"A">>, <<"A", "B">>}

NoRetry ==
  [pc |-> "idle", max_retries |-> 0, attempt |-> 0, calls |-> 0, slept |-> <<>>,
   failures |-> <<>>, result |-> None]

InitCommon ==
  /\ users = [u \in Users |-> NoUser]
  /\ tickets = [t \in TicketIds |-> NoTicket]
  /\ tickets_assignment = <<>>
  /\ current_ticket = [c \in CounsellorNames |-> None]
  /\ last_index = 0 - 1
  /\ rr_log = <<>>
  /\ roster_changes = 0
  /\ evt = NoEvt
  /\ rt = NoRetry
  /\ inflight = <<>>

Init ==
  /\ MODE \in Modes
  /\ roster \in InitRosters
  /\ InitCommon

\* counsellors.get_counsellors / chat_handler.is_counsellor
is_counsellor(who) == \E i \in 1..Len(roster) : roster[i] = who

\* variant: the inbound message is not stored
save_conversation_skip(user, res) == <<>>

\* chat_handler.save_conversation(user, message) -> db.save_memory: the row added to
\* the messages table
save_conversation(user, res) ==
  <<[from |-> user, type |-> res.type, content |-> res.body]>>

\* logged: the inbound message as stored at chat_handler.py 128 / 136; a message
\* whose sender is a counsellor is not stored on arrival
Event(op, u, m, branch, raised, sends, ret) ==
  [op |-> op, user |-> u, msg |-> m, branch |-> branch, raised |-> raised,
   sends |-> sends, ret |-> ret,
   logged |-> IF branch = "from_counsellor" THEN <<>> ELSE save_conversation(u, m),
   question_status |-> None]

\* a step that called send_onboarding_question: question_status (chat_handler.py
\* 228, 351) is what the call returned
EventQ(op, u, m, branch, raised, sends, ret, status) ==
  [Event(op, u, m, branch, raised, sends, ret) EXCEPT
     !.question_status = IF status THEN "True" ELSE "False"]

UnchangedEscalation ==
  UNCHANGED <<tickets, tickets_assignment, current_ticket, last_index, rr_log>>

(***************************************************************************)
(* incoming_messages, first-time user (chat_handler.py 124-134)            *)
(***************************************************************************)
\* variant: the handler is stored under the lifecycle name instead of the code's name
FirstMessage_lifecycle_name(u, m, dflt) ==
  /\ ~users[u].exists
  /\ users' = [users EXCEPT ![u] = [save_user(dflt) EXCEPT !.handler = "language_selecting"]]
  /\ evt' = Event("incoming", u, m, "first_time", FALSE,
                  Sent(u, "language_selection"), None)
  /\ UnchangedEscalation
  /\ UNCHANGED <<MODE, roster, roster_changes, rt, inflight>>

FirstMessage(u, m, dflt) ==
  /\ ~users[u].exists
  /\ users' = [users EXCEPT ![u] = [save_user(dflt) EXCEPT !.handler = "language_selector"]]
  /\ evt' = Event("incoming", u, m, "first_time", FALSE,
                  Sent(u, "language_selection"), None)
  /\ UnchangedEscalation
  /\ UNCHANGED <<MODE, roster, roster_changes, rt, inflight>>

(***************************************************************************)
(* incoming_messages, handler = language_selector (chat_handler.py 138-231)*)
(***************************************************************************)
IsFrench(s) == s \in {"fr", "francais"}
IsEnglish(s) == s \in {"en", "english"}
\* body.lower() in LANGUAGE_SELECTION_PROMPT.lower()
InPrompt(s) == s = ""
\* reply_info.split('_') unpacks into exactly (category, option)
SplitsInTwo(cat) == cat # "religious_background"

\* the language that the text branch persists, or None when it persists nothing;
\* lm: what db.get_last_memory returned, det: what detect_language returns
TextLanguage(body, lm, det) ==
  CASE lm = "none" -> det
    [] lm = "prompt" -> IF IsFrench(body) THEN "fr" ELSE IF IsEnglish(body) THEN "en" ELSE det
    [] lm = "inbound" ->
         IF InPrompt(body)
         THEN (IF IsFrench(body) THEN "fr" ELSE IF IsEnglish(body) THEN "en" ELSE det)
         ELSE IF IsFrench(body) THEN "fr" ELSE IF IsEnglish(body) THEN "en" ELSE None

\* the language persisted while handling m, or None
PersistedLanguage(profile, m, lm, det) ==
  CASE m.type = "reply" -> IF m.cat = "lang" THEN m.body ELSE None
    [] m.type = "text" /\ profile.language = None -> TextLanguage(m.body, lm, det)
    [] OTHER -> None

LanguageSelect(u, m, out, lm, det) ==
  /\ users[u].exists /\ users[u].handler = "language_selector"
  \* inputs that the branch taken does not read are fixed
  /\ (m.type # "text" \/ users[u].language # None) => (lm = "none" /\ det = "en")
  /\ (m.type = "reply" /\ ~SplitsInTwo(m.cat)) => out = "sent"
  /\ IF m.type = "reply" /\ ~SplitsInTwo(m.cat)
     THEN /\ evt' = Event("incoming", u, m, "language", TRUE, <<>>, None)
          /\ UNCHANGED users
     ELSE LET profile == users[u]
              persisted == PersistedLanguage(profile, m, lm, det)
              \* user_language as used for the greeting
              user_language ==
                IF persisted # None THEN persisted
                ELSE IF profile.language # None THEN profile.language ELSE "en"
              current_question ==
                IF profile.onboarding_level # None THEN profile.onboarding_level
                ELSE QuestionKeys[1]
              delivered == send_question_ok(current_question, out)
          IN /\ users' = [users EXCEPT
                  ![u].language = IF persisted # None THEN persisted ELSE @,
                  ![u].handler = "onboarding",
                  ![u].onboarding_level = IF delivered THEN current_question ELSE @]
             /\ evt' = EventQ("incoming", u, m, "language", FALSE,
                    send_message(u, "greeting:" \o user_language)
                      \o send_message(u, "onboarding_intro:" \o user_language)
                      \o send_question_sends(u, current_question, out), None, delivered)
  /\ UnchangedEscalation
  /\ UNCHANGED <<MODE, roster, roster_changes, rt, inflight>>

(***************************************************************************)
(* incoming_messages, handler = onboarding (chat_handler.py 233-354)       *)
(***************************************************************************)
\* the profile column written for an accepted answer, or None when nothing is saved
SavedValue(m, current_question) ==
  CASE m.type = "reply" ->
         IF m.body \in skip_values THEN None ELSE m.body
    [] m.type = "text" ->
         LET v == validate_user_response(m.body, current_question)
         IN IF v.value = None \/ v.value \in skip_values THEN None ELSE v.value
    [] OTHER -> None

\* the answer is refused: the question is resent and the handler returns
Refused(m, current_question) ==
  CASE m.type = "reply" -> m.cat # current_question
    [] m.type = "text" -> ~validate_user_response(m.body, current_question).ok
    [] OTHER -> FALSE

Onboarding(u, m, out, out2) ==
  /\ users[u].exists /\ users[u].handler = "onboarding"
  \* inputs that the branch taken does not read are fixed
  /\ m.type \in {"reply", "text"} =>
       IF Refused(m, IF users[u].onboarding_level = None THEN QuestionKeys[1]
                     ELSE users[u].onboarding_level)
       THEN out2 = "sent" ELSE out = "sent"
  /\ LET profile == users[u]
         current_question ==
           IF profile.onboarding_level = None THEN QuestionKeys[1]
           ELSE profile.onboarding_level
         next_question == set_next_question(current_question)
         saved == SavedValue(m, current_question)
         db_field == field_mapping[current_question]
     IN IF Refused(m, current_question)
        THEN /\ users' = [users EXCEPT ![u].onboarding_level = current_question]
             /\ evt' = Event("incoming", u, m, "onboarding_refused", FALSE,
                    (IF m.type = "text" THEN send_message(u, "validation_error")
                     ELSE <<>>)
                      \o resend_question(u, current_question, out), None)
        ELSE LET resent == IF m.type \notin {"reply", "text"}
                           THEN resend_question(u, current_question, out) ELSE <<>>
             IN IF next_question = "Done"
                THEN /\ users' = [users EXCEPT
                          ![u].onboarding_level = current_question,
                          ![u].profile[db_field] = IF saved # None THEN saved ELSE @,
                          ![u].handler = "ai_bot"]
                     /\ evt' = Event("incoming", u, m, "onboarding_done", FALSE,
                            resent \o send_message(u, "onboarding_complete"), None)
                ELSE /\ users' = [users EXCEPT
                          ![u].profile[db_field] = IF saved # None THEN saved ELSE @,
                          ![u].onboarding_level = next_question]
                     /\ evt' = EventQ("incoming", u, m, "onboarding_next", FALSE,
                            resent \o send_question_sends(u, next_question, out2), None,
                            send_question_ok(next_question, out2))
  /\ UnchangedEscalation
  /\ UNCHANGED <<MODE, roster, roster_changes, rt, inflight>>

(***************************************************************************)
(* counsellors_select_algo.round_robin: [res, idx] for the fetched roster  *)
(***************************************************************************)
\* variant: the index is a call counter that is never reduced
round_robin_counter(counsellor_list, idx) ==
  IF counsellor_list = <<>> THEN [res |-> None, idx |-> idx]
  ELSE [res |-> counsellor_list[((idx + 1) % Len(counsellor_list)) + 1], idx |-> idx + 1]

\* variant: the first counsellor is returned every time
round_robin_first(counsellor_list, idx) ==
  IF counsellor_list = <<>> THEN [res |-> None, idx |-> idx]
  ELSE [res |-> counsellor_list[1], idx |-> 0]

round_robin(counsellor_list, idx) ==
  IF counsellor_list = <<>> THEN [res |-> None, idx |-> idx]
  ELSE LET i == (idx + 1) % Len(counsellor_list)
       IN [res |-> counsellor_list[i + 1], idx |-> i]

(***************************************************************************)
(* ai_bot.get_response (ai_bot.py 363-421) and detect_medical_alert        *)
(***************************************************************************)
Sentinel == "Escalating to a counsellor..."
LlmOutputs == {"reply", Sentinel, "error"}

\* menstrual_health_prompt.detect_medical_alert: the category whose pattern matches
detect_medical_alert(text) == IF text = "i fainted" THEN "severe_symptoms" ELSE None

\* [raised, value]; docs: the retriever found documents; llm: what llm.invoke does
get_response(user_query, lang, docs, llm) ==
  IF lang = None THEN [raised |-> TRUE, value |-> None]
  ELSE IF detect_medical_alert(user_query) # None
  THEN [raised |-> FALSE,
        value |-> IF llm = "error" THEN "alert:" \o detect_medical_alert(user_query)
                  ELSE "alert:" \o detect_medical_alert(user_query) \o "\n\n" \o llm]
  ELSE IF ~docs THEN [raised |-> FALSE, value |-> "out_of_scope_message"]
  ELSE [raised |-> FALSE,
        value |-> IF llm = "error" THEN "technical_difficulties_message" ELSE llm]

\* get_response reached llm.invoke and took its except branch
llm_failed(user_query, lang, docs, llm) ==
  /\ lang # None /\ llm = "error"
  /\ (detect_medical_alert(user_query) # None \/ docs)

(***************************************************************************)
(* escalate_to_counsellor (chat_handler.py 523-538) with                   *)
(* ticket.create_ticket, db.assign_ticket_handler and notify_counsellor.   *)
(* The result is the state after the call and what it returned.            *)
(***************************************************************************)
ChatAppOutcomes == {"ok", "token_fails", "room_fails"}

\* ticket.create_ticket: the id, or None when the INSERT raised
create_ticket_id(u, db_ok) ==
  IF db_ok /\ ~tickets[TicketId(u)].exists THEN TicketId(u) ELSE None

\* tickets table after ticket.create_ticket
create_ticket_rows(u, db_ok) ==
  IF db_ok /\ ~tickets[TicketId(u)].exists
  THEN [tickets EXCEPT ![TicketId(u)] =
          [exists |-> TRUE, user |-> u, status |-> "open", handler |-> None]]
  ELSE tickets

\* db.assign_ticket_handler: tickets rows after the call
assign_ticket_rows(rows, ticket_id, handler) ==
  IF MODE = "single_counsellor" THEN rows
  ELSE [t \in TicketIds |->
          IF t = ticket_id /\ rows[t].exists
          THEN [rows[t] EXCEPT !.handler = handler, !.status = "in_progress"]
          ELSE rows[t]]

\* db.assign_ticket_handler: tickets_assignment after the call
assign_ticket_log(ticket_id, handler) ==
  IF MODE = "single_counsellor" THEN tickets_assignment
  ELSE Append(tickets_assignment, [ticket_id |-> ticket_id, counsellor_id |-> handler])

\* db.assign_ticket_handler: counsellors.current_ticket after the call
assign_current_ticket(ticket_id, handler) ==
  IF MODE = "single_counsellor" /\ handler \in CounsellorNames
  THEN [current_ticket EXCEPT ![handler] = ticket_id]
  ELSE current_ticket

\* notify_counsellor raises: a chat-app call fails, the counsellor id is empty
\* (create_room) or the ticket row is missing (get_ticket(...)['transcript'])
notify_raises(counsellor_id, ticket_id, chat) ==
  /\ MODE = "multi_counsellors_wp"
  /\ \/ chat # "ok"
     \/ counsellor_id = None
     \/ ticket_id = None

notify_sends(u, counsellor_id, ticket_id, chat) ==
  CASE MODE = "no_counsellor" -> send_message(counsellor_id, "new_ticket")
    [] MODE = "multi_counsellors_wp" ->
         IF notify_raises(counsellor_id, ticket_id, chat) THEN <<>>
         ELSE Sent(counsellor_id, "room_transcript")
    [] OTHER -> <<>>

\* the user's auth_key after notify_counsellor
notify_auth_key(old, chat) ==
  IF MODE = "multi_counsellors_wp" /\ chat # "token_fails" THEN "token" ELSE old

(***************************************************************************)
(* incoming_messages, handler = ai_bot (chat_handler.py 392-406)           *)
(***************************************************************************)
AiBot(u, m, docs, llm, db_ok, chat) ==
  /\ users[u].exists /\ users[u].handler = "ai_bot"
  \* inputs that the branch taken does not read are fixed
  /\ get_response(m.body, users[u].language, docs, llm).value # Sentinel =>
       (db_ok /\ chat = "ok")
  /\ LET profile == users[u]
         r == get_response(m.body, profile.language, docs, llm)
     IN IF r.raised
        THEN /\ evt' = Event("incoming", u, m, "ai_bot", TRUE, <<>>, None)
             /\ UNCHANGED users
             /\ UnchangedEscalation
        ELSE IF r.value = Sentinel
        THEN LET ticket_id == create_ticket_id(u, db_ok)
                 rows == create_ticket_rows(u, db_ok)
                 rr == round_robin(roster, last_index)
                 raises == notify_raises(rr.res, ticket_id, chat)
             IN /\ users' = [users EXCEPT
                     ![u].handler = "counsellor",
                     ![u].auth_key = notify_auth_key(@, chat)]
                /\ tickets' = assign_ticket_rows(rows, ticket_id, rr.res)
                /\ tickets_assignment' = assign_ticket_log(ticket_id, rr.res)
                /\ current_ticket' = assign_current_ticket(ticket_id, rr.res)
                /\ last_index' = rr.idx
                /\ rr_log' = Append(rr_log, [roster |-> roster, res |-> rr.res])
                /\ evt' = Event("incoming", u, m, "escalate", raises,
                       IF raises THEN <<>>
                       ELSE notify_sends(u, rr.res, ticket_id, chat)
                              \o send_message(u, "counsellor_assigned")
                              \o send_message(u, "connected_notice"),
                       ticket_id)
        ELSE /\ evt' = Event("incoming", u, m,
                    IF llm_failed(m.body, profile.language, docs, llm)
                    THEN "ai_failed" ELSE "ai_bot",
                    FALSE, send_message(u, r.value), None)
             /\ UNCHANGED users
             /\ UnchangedEscalation
  /\ UNCHANGED <<MODE, roster, roster_changes, rt, inflight>>

(***************************************************************************)
(* incoming_messages, handler = counsellor (chat_handler.py 356-390)       *)
(***************************************************************************)
\* chat_handler.get_handler_agent
get_handler_agent(u) ==
  IF tickets[TicketId(u)].exists THEN tickets[TicketId(u)].handler ELSE None

CounsellorRelay(u, m, chat) ==
  /\ users[u].exists /\ users[u].handler = "counsellor"
  /\ MODE # "multi_counsellors_wp_web" => chat = "ok"
  /\ IF MODE # "multi_counsellors_wp_web"
     THEN /\ evt' = Event("incoming", u, m, "relay", FALSE, <<>>, None)
          /\ UNCHANGED users
     ELSE IF users[u].auth_key = None /\ chat = "token_fails"
     THEN /\ evt' = Event("incoming", u, m, "relay", FALSE, <<>>, None)
          /\ UNCHANGED users
     ELSE /\ users' = [users EXCEPT ![u].auth_key = "token"]
          /\ IF m.body = "" \/ chat = "room_fails"
             THEN evt' = Event("incoming", u, m, "relay", TRUE, <<>>, None)
             ELSE evt' = Event("incoming", u, m, "relay", FALSE,
                           Sent("wa_" \o u \o "_" \o get_handler_agent(u), m.body), None)
  /\ UnchangedEscalation
  /\ UNCHANGED <<MODE, roster, roster_changes, rt, inflight>>

(***************************************************************************)
(* incoming_messages, sender is a counsellor (chat_handler.py 411-413)     *)
(***************************************************************************)
CounsellorMessage(c, m, reciever_id) ==
  /\ is_counsellor(c)
  /\ m.type = "text" /\ m.body # ""   \* index.py webhook: text only
  /\ evt' = Event("incoming", c, m, "from_counsellor", FALSE,
                  send_message(c, m.body), reciever_id)
  /\ UNCHANGED users
  /\ UnchangedEscalation
  /\ UNCHANGED <<MODE, roster, roster_changes, rt, inflight>>

(***************************************************************************)
(* Spec: inbound messages handled one at a time                            *)
(***************************************************************************)
Next ==
  \/ \E u \in Users, m \in InboundMsgs, dflt \in LanguageDefaults : FirstMessage(u, m, dflt)
  \/ \E u \in Users, m \in InboundMsgs, out \in QOutcomes,
        lm \in {"inbound", "prompt", "none"}, det \in Languages :
       LanguageSelect(u, m, out, lm, det)
  \/ \E u \in Users, m \in InboundMsgs, out \in QOutcomes, out2 \in QOutcomes :
       Onboarding(u, m, out, out2)
  \/ \E u \in Users, m \in InboundMsgs, docs \in BOOLEAN,
        llm \in LlmOutputs, db_ok \in BOOLEAN, chat \in ChatAppOutcomes :
       AiBot(u, m, docs, llm, db_ok, chat)
  \/ \E u \in Users, m \in InboundMsgs, chat \in ChatAppOutcomes :
       CounsellorRelay(u, m, chat)
  \/ \E c \in CounsellorNames, m \in InboundMsgs, r \in Users :
       CounsellorMessage(c, m, r)

Spec == Init /\ [][Next]_vars

(***************************************************************************)
(* SpecRR: round_robin called directly while counsellors are added and     *)
(* removed (counsellors.add_counsellor / remove_counsellor)                *)
(***************************************************************************)
MaxCalls == 6
MaxRosterChanges == 2

InitRR ==
  /\ MODE = "multi_counsellors_wp_web"
  /\ roster \in InitRosters \cup {<<"A", "B", "C">>}
  /\ InitCommon

UnchangedConversation ==
  UNCHANGED <<MODE, users, tickets, tickets_assignment, current_ticket, evt, rt, inflight>>

RoundRobinCall ==
  /\ Len(rr_log) < MaxCalls
  /\ LET rr == round_robin(roster, last_index)
     IN /\ last_index' = rr.idx
        /\ rr_log' = Append(rr_log, [roster |-> roster, res |-> rr.res])
  /\ UNCHANGED <<roster, roster_changes>>
  /\ UnchangedConversation

AddCounsellor(c) ==
  /\ roster_changes < MaxRosterChanges
  /\ ~is_counsellor(c)
  /\ roster' = Append(roster, c)
  /\ roster_changes' = roster_changes + 1
  /\ UNCHANGED <<last_index, rr_log>>
  /\ UnchangedConversation

RemoveCounsellor(c) ==
  /\ roster_changes < MaxRosterChanges
  /\ is_counsellor(c)
  /\ roster' = SelectSeq(roster, LAMBDA x : x # c)
  /\ roster_changes' = roster_changes + 1
  /\ UNCHANGED <<last_index, rr_log>>
  /\ UnchangedConversation

NextRR ==
  \/ RoundRobinCall
  \/ \E c \in CounsellorNames : AddCounsellor(c)
  \/ \E c \in CounsellorNames : RemoveCounsellor(c)

SpecRR == InitRR /\ [][NextRR]_vars

(***************************************************************************)
(* SpecRetry: router.retry_with_backoff (router.py 53-93), one attempt or  *)
(* one sleep per step.  Times are in milliseconds.                         *)
(***************************************************************************)
DefaultMaxRetries == 3
BaseDelayMs == 1000
BackoffFactor == 2
MaxDelayMs == 60000
\* max_retries ranges over 0..MaxRetriesArg
MaxRetriesArg == 4

AttemptOutcomes == {"ok", "request_exception", "other_exception"}

RECURSIVE Pow(_, _)
Pow(b, e) == IF e = 0 THEN 1 ELSE b * Pow(b, e - 1)

Min(a, b) == IF a < b THEN a ELSE b

\* variant: the delay grows linearly
BackoffDelay_linear(attempt) == Min(BaseDelayMs * (attempt + 1), MaxDelayMs)

\* delay = min(base_delay * (backoff_factor ** attempt), max_delay)
BackoffDelay(attempt) == Min(BaseDelayMs * Pow(BackoffFactor, attempt), MaxDelayMs)

\* jitter = random.uniform(0, 0.1) * delay: none, half of the range, all of it
Jitters(delay) == {0, delay \div 20, delay \div 10}

InitRetry ==
  /\ MODE = "multi_counsellors_wp_web"
  /\ roster = <<>>
  /\ InitCommon

UnchangedButRetry ==
  UNCHANGED <<MODE, users, tickets, tickets_assignment, roster, current_ticket,
              last_index, rr_log, roster_changes, evt, inflight>>

\* retry_with_backoff(func, max_retries = mr) is entered
RetryStart(mr) ==
  /\ rt.pc = "idle"
  /\ rt' = [NoRetry EXCEPT !.pc = "attempt", !.max_retries = mr]
  /\ UnchangedButRetry

\* variant: the last attempt is recognised one iteration late
RetryAttempt_late(outcome) ==
  /\ rt.pc = "attempt"
  /\ rt' = CASE outcome = "ok" ->
                  [rt EXCEPT !.calls = @ + 1, !.pc = "returned",
                             !.result = [kind |-> "ok", attempt |-> rt.attempt]]
             [] outcome = "other_exception" ->
                  [rt EXCEPT !.calls = @ + 1, !.pc = "raised",
                             !.failures = Append(@, outcome),
                             !.result = [kind |-> outcome, attempt |-> rt.attempt]]
             [] outcome = "request_exception" ->
                  IF rt.attempt = rt.max_retries + 1
                  THEN [rt EXCEPT !.calls = @ + 1, !.pc = "raised",
                                  !.failures = Append(@, outcome),
                                  !.result = [kind |-> outcome, attempt |-> rt.attempt]]
                  ELSE [rt EXCEPT !.calls = @ + 1, !.pc = "sleep",
                                  !.failures = Append(@, outcome)]
  /\ UnchangedButRetry

\* one iteration of the for loop up to the sleep: func() returns or raises
RetryAttempt(outcome) ==
  /\ rt.pc = "attempt"
  /\ rt' = CASE outcome = "ok" ->
                  [rt EXCEPT !.calls = @ + 1, !.pc = "returned",
                             !.result = [kind |-> "ok", attempt |-> rt.attempt]]
             [] outcome = "other_exception" ->
                  [rt EXCEPT !.calls = @ + 1, !.pc = "raised",
                             !.failures = Append(@, outcome),
                             !.result = [kind |-> outcome, attempt |-> rt.attempt]]
             [] outcome = "request_exception" ->
                  IF rt.attempt = rt.max_retries
                  THEN [rt EXCEPT !.calls = @ + 1, !.pc = "raised",
                                  !.failures = Append(@, outcome),
                                  !.result = [kind |-> outcome, attempt |-> rt.attempt]]
                  ELSE [rt EXCEPT !.calls = @ + 1, !.pc = "sleep",
                                  !.failures = Append(@, outcome)]
  /\ UnchangedButRetry

\* time.sleep(total_delay), then the next iteration
RetrySleep(jitter) ==
  /\ rt.pc = "sleep"
  /\ jitter \in Jitters(BackoffDelay(rt.attempt))
  /\ rt' = [rt EXCEPT !.slept = Append(@, [delay |-> BackoffDelay(rt.attempt),
                                            total |-> BackoffDelay(rt.attempt) + jitter]),
                      !.attempt = @ + 1,
                      !.pc = "attempt"]
  /\ UnchangedButRetry

\* router.route_message (168-184): what the caller of the retry loop returns
route_message_result ==
  CASE rt.pc = "returned" -> "response"
    [] rt.pc = "raised" -> "error"
    [] OTHER -> None

NextRetry ==
  \/ \E mr \in 0..MaxRetriesArg : RetryStart(mr)
  \/ \E outcome \in AttemptOutcomes : RetryAttempt(outcome)
  \/ \E jitter \in 0..(MaxDelayMs \div 10) : RetrySleep(jitter)

SpecRetry == InitRetry /\ [][NextRetry]_vars

\* the same run when every call of func() returns or raises and every
\* time.sleep returns: a started loop is not left standing between two steps
SpecRetryFair ==
  /\ InitRetry /\ [][NextRetry]_vars
  /\ WF_vars(\E outcome \in AttemptOutcomes : RetryAttempt(outcome))
  /\ WF_vars(\E jitter \in 0..(MaxDelayMs \div 10) : RetrySleep(jitter))

(***************************************************************************)
(* SpecStore: the user store called directly (users.create_user,           *)
(* users.update_user_handler, users.delete_user_profile), as the           *)
(* administrative callers do, with handler values of any kind              *)
(***************************************************************************)
StoreUsers == {"u1", "u2"}
HandlerWrites == Handlers \cup {"bogus", ""}

StoreEvt(op, u, handler, ret) ==
  [NoEvt EXCEPT !.op = op, !.user = u, !.msg = [@ EXCEPT !.body = handler], !.ret = ret]

InitStore ==
  /\ MODE = "multi_counsellors_wp_web"
  /\ roster = <<>>
  /\ users = [u \in StoreUsers |-> NoUser]
  /\ tickets = [t \in TicketIds |-> NoTicket]
  /\ tickets_assignment = <<>>
  /\ current_ticket = [c \in CounsellorNames |-> None]
  /\ last_index = 0 - 1
  /\ rr_log = <<>>
  /\ roster_changes = 0
  /\ evt = NoEvt
  /\ rt = NoRetry
  /\ inflight = <<>>

UnchangedButUsers ==
  UNCHANGED <<MODE, tickets, tickets_assignment, roster, current_ticket,
              last_index, rr_log, roster_changes, rt, inflight>>

\* users.create_user -> db.save_user
create_user(u, dflt) ==
  /\ IF ~users[u].exists
     THEN /\ users' = [users EXCEPT ![u] = save_user(dflt)]
          /\ evt' = StoreEvt("create_user", u, None, "True")
     ELSE /\ dflt = None
          /\ UNCHANGED users
          /\ evt' = StoreEvt("create_user", u, None, "False")
  /\ UnchangedButUsers

\* users.update_user_handler -> db.update_user_handler:
\* UPDATE users SET handler = ? WHERE id = ?
update_user_handler(u, handler) ==
  /\ IF users[u].exists
     THEN /\ users' = [users EXCEPT ![u].handler = handler]
          /\ evt' = StoreEvt("update_user_handler", u, handler, "True")
     ELSE /\ UNCHANGED users
          /\ evt' = StoreEvt("update_user_handler", u, handler, "False")
  /\ UnchangedButUsers

\* users.delete_user_profile -> db.delete_user_profile
delete_user_profile(u) ==
  /\ IF users[u].exists
     THEN /\ users' = [users EXCEPT ![u] = NoUser]
          /\ evt' = StoreEvt("delete_user_profile", u, None, "True")
     ELSE /\ UNCHANGED users
          /\ evt' = StoreEvt("delete_user_profile", u, None, "False")
  /\ UnchangedButUsers

NextStore ==
  \/ \E u \in StoreUsers, dflt \in LanguageDefaults : create_user(u, dflt)
  \/ \E u \in StoreUsers, handler \in HandlerWrites : update_user_handler(u, handler)
  \/ \E u \in StoreUsers : delete_user_profile(u)

SpecStore == InitStore /\ [][NextStore]_vars

(***************************************************************************)
(* SpecRRC: counsellors_select_algo.round_robin run by two threads of the  *)
(* web server, one call each, one read or write of round_robin.last_index  *)
(* per step, while counsellors are added and removed.                      *)
(***************************************************************************)
Threads == {"t1", "t2"}

IdleCall == [pc |-> "idle", counsellor_list |-> <<>>, idx |-> 0 - 1, res |-> None]

\* the index as earlier calls over the roster left it, or -1 before the first call
InitRRC ==
  /\ MODE = "multi_counsellors_wp_web"
  /\ roster \in InitRosters \cup {<<"A", "B", "C">>}
  /\ users = [u \in Users |-> NoUser]
  /\ tickets = [t \in TicketIds |-> NoTicket]
  /\ tickets_assignment = <<>>
  /\ current_ticket = [c \in CounsellorNames |-> None]
  /\ last_index \in (0 - 1)..(Len(roster) - 1)
  /\ rr_log = <<>>
  /\ roster_changes = 0
  /\ evt = NoEvt
  /\ rt = NoRetry
  /\ inflight = [t \in Threads |-> IdleCall]

UnchangedButCalls ==
  UNCHANGED <<MODE, users, tickets, tickets_assignment, roster, current_ticket,
              roster_changes, evt, rt>>

\* counsellor_list[i] with i as Python indexes a list: -1 is the last element,
\* an index past the end raises IndexError
PyIndex(counsellor_list, i) ==
  IF i >= Len(counsellor_list) THEN "IndexError"
  ELSE IF i < 0 THEN counsellor_list[Len(counsellor_list) + i + 1]
  ELSE counsellor_list[i + 1]

\* lines 10-13: counsellor_list = counsellors.list_counsellors(); None when empty
rr_fetch(t) ==
  /\ inflight[t].pc = "idle"
  /\ IF roster = <<>>
     THEN /\ inflight' = [inflight EXCEPT ![t].pc = "done", ![t].res = None]
          /\ rr_log' = Append(rr_log, [roster |-> roster, res |-> None])
     ELSE /\ inflight' = [inflight EXCEPT ![t].pc = "hasattr", ![t].counsellor_list = roster]
          /\ UNCHANGED rr_log
  /\ UNCHANGED last_index
  /\ UnchangedButCalls

\* line 16: if not hasattr(round_robin, "last_index")
rr_hasattr(t) ==
  /\ inflight[t].pc = "hasattr"
  /\ inflight' = [inflight EXCEPT ![t].pc = IF last_index = 0 - 1 THEN "init" ELSE "load"]
  /\ UNCHANGED <<last_index, rr_log>>
  /\ UnchangedButCalls

\* line 17: round_robin.last_index = -1
rr_init(t) ==
  /\ inflight[t].pc = "init"
  /\ last_index' = 0 - 1
  /\ inflight' = [inflight EXCEPT ![t].pc = "load"]
  /\ UNCHANGED rr_log
  /\ UnchangedButCalls

\* line 20, right-hand side: round_robin.last_index is read
rr_load(t) ==
  /\ inflight[t].pc = "load"
  /\ inflight' = [inflight EXCEPT ![t].pc = "store", ![t].idx = last_index]
  /\ UNCHANGED <<last_index, rr_log>>
  /\ UnchangedButCalls

\* variant: the increment is applied to the attribute as it is when it is written
rr_store_atomic(t) ==
  /\ inflight[t].pc = "store"
  /\ last_index' = (last_index + 1) % Len(inflight[t].counsellor_list)
  /\ inflight' = [inflight EXCEPT ![t].pc = "return"]
  /\ UNCHANGED rr_log
  /\ UnchangedButCalls

\* line 20, assignment: (value read + 1) % len(counsellor_list) is written
rr_store(t) ==
  /\ inflight[t].pc = "store"
  /\ last_index' = (inflight[t].idx + 1) % Len(inflight[t].counsellor_list)
  /\ inflight' = [inflight EXCEPT ![t].pc = "return"]
  /\ UNCHANGED rr_log
  /\ UnchangedButCalls

\* line 23: return counsellor_list[round_robin.last_index], the attribute read again
rr_return(t) ==
  /\ inflight[t].pc = "return"
  /\ LET r == PyIndex(inflight[t].counsellor_list, last_index)
     IN /\ inflight' = [inflight EXCEPT ![t].pc = "done", ![t].res = r]
        /\ rr_log' = Append(rr_log, [roster |-> inflight[t].counsellor_list, res |-> r])
  /\ UNCHANGED last_index
  /\ UnchangedButCalls

NextRRC ==
  \/ \E t \in Threads : rr_fetch(t)
  \/ \E t \in Threads : rr_hasattr(t)
  \/ \E t \in Threads : rr_init(t)
  \/ \E t \in Threads : rr_load(t)
  \/ \E t \in Threads : rr_store(t)
  \/ \E t \in Threads : rr_return(t)
  \/ \E c \in CounsellorNames : AddCounsellor(c)
  \/ \E c \in CounsellorNames : RemoveCounsellor(c)

SpecRRC == InitRRC /\ [][NextRRC]_vars

(***************************************************************************)
(* SpecConc: incoming_messages run by two threads of the web server for    *)
(* messages of one user, one read or write of the users row per step       *)
(* (chat_handler.py 120-406).  Each thread works on the profile it read at *)
(* line 137.  Messages are typed texts.                                    *)
(***************************************************************************)
\* the cursor a handler works with: a missing onboarding_level means the first question
Cursor(row) == IF row.onboarding_level = None THEN QuestionKeys[1] ELSE row.onboarding_level

ConcUser == "u1"
ConcTexts == {"25", "female", "male"}

NoSnapshot == [handler |-> None, language |-> None, onboarding_level |-> None]

IdleHandler == [pc |-> "idle", body |-> None, user_profile |-> NoSnapshot, ai_response |-> None]

InitConc ==
  /\ MODE = "multi_counsellors_wp_web"
  /\ roster = <<"A">>
  /\ users = [u \in Users |-> NoUser]
  /\ tickets = [t \in TicketIds |-> NoTicket]
  /\ tickets_assignment = <<>>
  /\ current_ticket = [c \in CounsellorNames |-> None]
  /\ last_index = 0 - 1
  /\ rr_log = <<>>
  /\ roster_changes = 0
  /\ evt = NoEvt
  /\ rt = NoRetry
  /\ inflight = [t \in Threads |-> IdleHandler]

UnchangedButRow ==
  UNCHANGED <<MODE, tickets, tickets_assignment, roster, current_ticket,
              last_index, rr_log, roster_changes, evt, rt>>

\* the thread goes to pc
Goto(t, pc) == inflight' = [inflight EXCEPT ![t].pc = pc]

\* incoming_messages returns (or raises): the thread is free for the next message
Return(t) == inflight' = [inflight EXCEPT ![t] = IdleHandler]

\* index.py 43: incoming_messages(user_id, message) is entered
receive(t, body) ==
  /\ inflight[t].pc = "idle"
  /\ inflight' = [inflight EXCEPT ![t].pc = "first_time_user", ![t].body = body]
  /\ UNCHANGED users
  /\ UnchangedButRow

\* line 124: first_time_user(user) -> db.user_exist
first_time_user(t) ==
  /\ inflight[t].pc = "first_time_user"
  /\ Goto(t, IF users[ConcUser].exists THEN "get_user_profile" ELSE "register_user")
  /\ UNCHANGED users
  /\ UnchangedButRow

\* line 126: register_user -> db.save_user; the INSERT raises when the row exists
register_user(t, dflt) ==
  /\ inflight[t].pc = "register_user"
  /\ IF users[ConcUser].exists
     THEN /\ dflt = None
          /\ UNCHANGED users
          /\ Return(t)
     ELSE /\ users' = [users EXCEPT ![ConcUser] = save_user(dflt)]
          /\ Goto(t, "language_selector")
  /\ UnchangedButRow

\* lines 130-134: users.update_user_handler(user, "language_selector"), the prompt
set_language_selector(t) ==
  /\ inflight[t].pc = "language_selector"
  /\ users' = [users EXCEPT ![ConcUser].handler = "language_selector"]
  /\ Return(t)
  /\ UnchangedButRow

\* line 137: user_profile = get_user_profile(user), and the branch on its handler
get_user_profile(t) ==
  /\ inflight[t].pc = "get_user_profile"
  /\ inflight' = [inflight EXCEPT
        ![t].user_profile = [handler |-> users[ConcUser].handler,
                             language |-> users[ConcUser].language,
                             onboarding_level |-> users[ConcUser].onboarding_level],
        ![t].pc = CASE users[ConcUser].handler = "language_selector" -> "select_language"
                    [] users[ConcUser].handler = "onboarding" -> "init_cursor"
                    [] users[ConcUser].handler = "ai_bot" -> "get_ai_response"
                    [] OTHER -> "relay"]
  /\ UNCHANGED users
  /\ UnchangedButRow

\* lines 140-200: the language is persisted when the text branch finds one
select_language(t, lm, det) ==
  /\ inflight[t].pc = "select_language"
  /\ inflight[t].user_profile.language # None => (lm = "none" /\ det = "en")
  /\ LET m == [type |-> "text", cat |-> None, body |-> inflight[t].body]
         persisted == PersistedLanguage(inflight[t].user_profile, m, lm, det)
     IN users' = [users EXCEPT ![ConcUser].language = IF persisted # None THEN persisted ELSE @]
  /\ Goto(t, "start_onboarding")
  /\ UnchangedButRow

\* line 215: users.update_user_handler(user, "onboarding")
start_onboarding(t) ==
  /\ inflight[t].pc = "start_onboarding"
  /\ users' = [users EXCEPT ![ConcUser].handler = "onboarding"]
  /\ Goto(t, "first_question")
  /\ UnchangedButRow

\* lines 217-231: the first question is sent; when it went out the cursor is written
first_question(t, out) ==
  /\ inflight[t].pc = "first_question"
  /\ LET current_question == Cursor(inflight[t].user_profile)
     IN users' = [users EXCEPT ![ConcUser].onboarding_level =
                    IF send_question_ok(current_question, out) THEN current_question ELSE @]
  /\ Return(t)
  /\ UnchangedButRow

\* lines 269-277: a missing cursor is initialised to the first question
init_cursor(t) ==
  /\ inflight[t].pc = "init_cursor"
  /\ users' = [users EXCEPT ![ConcUser].onboarding_level =
                 IF inflight[t].user_profile.onboarding_level = None
                 THEN QuestionKeys[1] ELSE @]
  /\ Goto(t, "answer")
  /\ UnchangedButRow

\* lines 298-330: the text is validated against the cursor of the profile read;
\* accepted, it is written to the mapped field; refused, the question is resent
answer(t) ==
  /\ inflight[t].pc = "answer"
  /\ LET current_question == Cursor(inflight[t].user_profile)
         m == [type |-> "text", cat |-> None, body |-> inflight[t].body]
         saved == SavedValue(m, current_question)
     IN IF Refused(m, current_question)
        THEN /\ UNCHANGED users
             /\ Return(t)
        ELSE /\ users' = [users EXCEPT ![ConcUser].profile[field_mapping[current_question]] =
                            IF saved # None THEN saved ELSE @]
             /\ Goto(t, "advance")
  /\ UnchangedButRow

\* variant: the next question is taken from the cursor as stored at the write
advance_fresh(t) ==
  /\ inflight[t].pc = "advance"
  /\ LET next_question == set_next_question(Cursor(users[ConcUser]))
     IN IF next_question = "Done"
        THEN /\ users' = [users EXCEPT ![ConcUser].handler = "ai_bot"]
             /\ Return(t)
        ELSE /\ users' = [users EXCEPT ![ConcUser].onboarding_level = next_question]
             /\ Goto(t, "next_question")
  /\ UnchangedButRow

\* lines 333-347: handler ai_bot after the last question, else the cursor moves on
advance(t) ==
  /\ inflight[t].pc = "advance"
  /\ LET next_question == set_next_question(Cursor(inflight[t].user_profile))
     IN IF next_question = "Done"
        THEN /\ users' = [users EXCEPT ![ConcUser].handler = "ai_bot"]
             /\ Return(t)
        ELSE /\ users' = [users EXCEPT ![ConcUser].onboarding_level = next_question]
             /\ Goto(t, "next_question")
  /\ UnchangedButRow

\* lines 351-354: the next question is sent; when it went out the cursor is written
next_question(t, out) ==
  /\ inflight[t].pc = "next_question"
  /\ LET q == set_next_question(Cursor(inflight[t].user_profile))
     IN users' = [users EXCEPT ![ConcUser].onboarding_level =
                    IF send_question_ok(q, out) THEN q ELSE @]
  /\ Return(t)
  /\ UnchangedButRow

\* lines 393-394: the text goes to get_ai_response with the language of the profile
\* read; the call raises, or its value is kept as ai_response
get_ai_response(t, docs, llm) ==
  /\ inflight[t].pc = "get_ai_response"
  /\ LET r == get_response(inflight[t].body, inflight[t].user_profile.language, docs, llm)
     IN IF r.raised THEN Return(t)
        ELSE IF r.value = Sentinel
        THEN inflight' = [inflight EXCEPT ![t].pc = "escalate", ![t].ai_response = r.value]
        ELSE Return(t)
  /\ UNCHANGED users
  /\ UnchangedButRow

\* line 526: users.update_user_handler(user, "counsellor")
escalate(t) ==
  /\ inflight[t].pc = "escalate"
  /\ users' = [users EXCEPT ![ConcUser].handler = "counsellor"]
  /\ Goto(t, "create_ticket")
  /\ UnchangedButRow

\* lines 528-538: the ticket is created, assigned round robin and notified
create_ticket(t, db_ok) ==
  /\ inflight[t].pc = "create_ticket"
  /\ Len(rr_log) < MaxCalls
  /\ LET ticket_id == create_ticket_id(ConcUser, db_ok)
         rr == round_robin(roster, last_index)
     IN /\ tickets' = assign_ticket_rows(create_ticket_rows(ConcUser, db_ok), ticket_id, rr.res)
        /\ tickets_assignment' = assign_ticket_log(ticket_id, rr.res)
        /\ current_ticket' = assign_current_ticket(ticket_id, rr.res)
        /\ last_index' = rr.idx
        /\ rr_log' = Append(rr_log, [roster |-> roster, res |-> rr.res])
  /\ Return(t)
  /\ UNCHANGED <<MODE, users, roster, roster_changes, evt, rt>>

\* lines 356-390: a missing auth_key is created and stored, then the message of
\* the escalated user goes to the room
relay(t, chat) ==
  /\ inflight[t].pc = "relay"
  /\ users' = [users EXCEPT ![ConcUser].auth_key =
                 IF @ = None /\ chat # "token_fails" THEN "token" ELSE @]
  /\ Return(t)
  /\ UnchangedButRow

NextConc ==
  \/ \E t \in Threads, body \in ConcTexts : receive(t, body)
  \/ \E t \in Threads : first_time_user(t)
  \/ \E t \in Threads, dflt \in LanguageDefaults : register_user(t, dflt)
  \/ \E t \in Threads : set_language_selector(t)
  \/ \E t \in Threads : get_user_profile(t)
  \/ \E t \in Threads, lm \in {"inbound", "prompt", "none"}, det \in Languages :
       select_language(t, lm, det)
  \/ \E t \in Threads : start_onboarding(t)
  \/ \E t \in Threads, out \in QOutcomes : first_question(t, out)
  \/ \E t \in Threads : init_cursor(t)
  \/ \E t \in Threads : answer(t)
  \/ \E t \in Threads : advance(t)
  \/ \E t \in Threads, out \in QOutcomes : next_question(t, out)
  \/ \E t \in Threads, docs \in BOOLEAN, llm \in LlmOutputs : get_ai_response(t, docs, llm)
  \/ \E t \in Threads : escalate(t)
  \/ \E t \in Threads, db_ok \in BOOLEAN : create_ticket(t, db_ok)
  \/ \E t \in Threads, chat \in ChatAppOutcomes : relay(t, chat)

SpecConc == InitConc /\ [][NextConc]_vars

(***************************************************************************)
(* Properties                                                              *)
(***************************************************************************)
LastQuestion == QuestionKeys[Len(QuestionKeys)]

\* the step handled an inbound message of user u
Handled(u) == evt'.op = "incoming" /\ evt'.user = u /\ users[u].exists

\* the event e shows question q going out
QuestionSent(e, q) == \E i \in 1..Len(e.sends) : e.sends[i].kind = "question:" \o q

\* C1: every persisted user's handler is one of language_selector, onboarding,
\* ai_bot, counsellor; no other value is ever stored.
C1_HandlerDomain ==
  \A u \in Users : users[u].exists => users[u].handler \in Handlers

C1_Witness ==
  \E u \in Users : users[u].exists /\ users[u].handler = "counsellor"

C4_CrisisEscalates ==
  [][\A u \in Users :
       (Handled(u) /\ users[u].handler = "ai_bot" /\ ~evt'.raised
          /\ detect_medical_alert(evt'.msg.body) # None)
         => /\ users'[u].handler = "counsellor"
            /\ evt'.branch = "escalate"]_vars

\* the step is an escalation of user u (escalate_to_counsellor was entered)
Escalated(u) == Handled(u) /\ users[u].handler = "ai_bot" /\ evt'.branch = "escalate"

\* what round_robin returned to the escalation of this step
Selected == rr_log'[Len(rr_log')].res

\* occurrences of counsellor c among calls i..j of round_robin
Count(c, i, j) == Cardinality({k \in i..j : rr_log[k].res = c})

\* C5: over calls made with one non-empty roster, round_robin returns the
\* counsellors in cyclic roster order, starting with the first one when the run
\* of calls starts at process start, and over any k * n consecutive calls each
\* of the n counsellors is returned exactly k times.
C5_RoundRobinCyclic ==
  \A i \in 1..Len(rr_log), j \in 1..Len(rr_log) :
    LET R == rr_log[i].roster
        n == Len(R)
    IN (i <= j /\ R # <<>> /\ \A k \in i..j : rr_log[k].roster = R) =>
         /\ i = 1 => rr_log[j].res = R[((j - 1) % n) + 1]
         /\ (j - i + 1) % n = 0 =>
              \A x \in 1..n : Count(R[x], i, j) = (j - i + 1) \div n

C5_Witness ==
  /\ Len(rr_log) = 4
  /\ \A k \in 1..4 : rr_log[k].roster = <<"A", "B", "C">>
  /\ <<rr_log[1].res, rr_log[2].res, rr_log[3].res, rr_log[4].res>> = <<"A", "B", "C", "A">>

\* C6: in every deployment mode, an escalation whose ticket was created and for
\* which a counsellor was selected sets the ticket to in_progress with that
\* counsellor as handler, leaves the user's handler at counsellor and appends
\* exactly one tickets_assignment record, leaving the earlier records as they were.
C6_AssignmentRecorded ==
  [][\A u \in Users :
       (Escalated(u) /\ ~evt'.raised /\ evt'.ret # None /\ Selected # None)
         => /\ tickets'[evt'.ret].status = "in_progress"
            /\ tickets'[evt'.ret].handler = Selected
            /\ users'[u].handler = "counsellor"
            /\ tickets_assignment' =
                 Append(tickets_assignment,
                        [ticket_id |-> evt'.ret, counsellor_id |-> Selected])]_vars

\* C7: an escalation whose ticket was created but for which no counsellor is
\* available leaves the ticket open with no handler, writes no tickets_assignment
\* record and completes without raising.
C7_NoCounsellorLeavesOpen ==
  [][\A u \in Users :
       (Escalated(u) /\ Selected = None /\ tickets'[TicketId(u)].exists)
         => /\ ~evt'.raised
            /\ tickets_assignment' = tickets_assignment
            /\ tickets'[TicketId(u)].status = "open"
            /\ tickets'[TicketId(u)].handler = None]_vars

AllTransient(n) == \A i \in 1..n : rt.failures[i] = "request_exception"

\* C9: func is called at most max_retries + 1 times (4 with the default); a retry
\* follows only a transport failure of the attempt before it; the first success
\* ends the loop with that result; when every attempt fails the error of the
\* last attempt is raised.
C9_BoundedRetry ==
  /\ rt.calls <= rt.max_retries + 1
  /\ rt.max_retries = DefaultMaxRetries => rt.calls <= 4
  /\ rt.attempt <= Len(rt.failures) /\ AllTransient(rt.attempt)
  /\ Len(rt.slept) = rt.attempt
  /\ rt.pc = "returned" =>
       /\ rt.result.kind = "ok" /\ rt.result.attempt = rt.attempt
       /\ rt.calls = rt.attempt + 1 /\ Len(rt.failures) = rt.attempt
  /\ rt.pc = "raised" =>
       /\ rt.calls = Len(rt.failures) /\ rt.calls = rt.attempt + 1
       /\ rt.result.kind = rt.failures[rt.calls]
       /\ rt.result.kind = "request_exception" => rt.calls = rt.max_retries + 1
       /\ route_message_result = "error"

C9_Witness ==
  /\ rt.pc = "raised" /\ rt.max_retries = DefaultMaxRetries
  /\ rt.calls = 4 /\ AllTransient(4)

\* C10 (as claimed): with max_retries = 3, after three consecutive transport
\* failures the sleeps were 1 s, 2 s and 4 s, each with at most 10% jitter added,
\* and the error is returned without a fourth attempt.
C10_Original ==
  rt.max_retries = DefaultMaxRetries =>
    /\ \A i \in 1..Len(rt.slept) :
         /\ rt.slept[i].delay = 1000 * Pow(2, i - 1)
         /\ rt.slept[i].total >= rt.slept[i].delay
         /\ 10 * (rt.slept[i].total - rt.slept[i].delay) <= rt.slept[i].delay
    /\ rt.calls <= 3

\* C10 (amended): with max_retries = 3 the sleeps before the retries are 1 s, 2 s
\* and 4 s, each with at most 10% jitter added; after three consecutive
\* transport failures a fourth attempt is made, the error is returned only when
\* that attempt fails too, and a fifth attempt is never made.
C10_BackoffSchedule ==
  rt.max_retries = DefaultMaxRetries =>
    /\ Len(rt.slept) <= 3
    /\ \A i \in 1..Len(rt.slept) :
         /\ rt.slept[i].delay = 1000 * Pow(2, i - 1)
         /\ rt.slept[i].total >= rt.slept[i].delay
         /\ 10 * (rt.slept[i].total - rt.slept[i].delay) <= rt.slept[i].delay
    /\ rt.calls <= 4
    /\ (Len(rt.failures) = 3 /\ AllTransient(3)) =>
         /\ rt.pc \in {"sleep", "attempt", "returned"}
         /\ rt.pc = "returned" => rt.calls = 4
    /\ (rt.pc = "raised" /\ rt.result.kind = "request_exception") =>
         (rt.calls = 4 /\ Len(rt.slept) = 3)

C10_Witness ==
  /\ rt.max_retries = DefaultMaxRetries /\ rt.pc = "raised"
  /\ rt.calls = 4 /\ AllTransient(4)
  /\ Len(rt.slept) = 3
  /\ <<rt.slept[1].delay, rt.slept[2].delay, rt.slept[3].delay>> = <<1000, 2000, 4000>>
  /\ rt.slept[3].total = 4400

C12_FirstMessage ==
  [][\A u \in Users :
       (~users[u].exists /\ evt'.op = "incoming" /\ evt'.user = u)
         => /\ users'[u].exists
            /\ users'[u].handler = "language_selector"
            /\ evt'.logged = <<[from |-> u, type |-> evt'.msg.type, content |-> evt'.msg.body]>>
            /\ evt'.sends = <<[to |-> u, kind |-> "language_selection"]>>
            /\ users'[u].language \in LanguageDefaults
            /\ users'[u].onboarding_level = None
            /\ \A f \in ProfileFields : users'[u].profile[f] = None
            /\ UNCHANGED <<tickets, tickets_assignment, rr_log>>]_vars

C12_Witness ==
  \E u \in Users :
    /\ evt.branch = "first_time" /\ evt.user = u
    /\ evt.msg = [type |-> "reply", cat |-> "lang", body |-> "fr"]
    /\ users[u].handler = "language_selector" /\ users[u].language # "fr"

\* the message is an answer that the onboarding branch accepts for question q
Accepted(m, q) == m.type \in {"reply", "text"} /\ ~Refused(m, q)

AssignedTo(u) ==
  {c \in CounsellorNames :
     /\ tickets[TicketId(u)].exists
     /\ tickets[TicketId(u)].status \in {"open", "in_progress"}
     /\ \/ tickets[TicketId(u)].handler = c
        \/ current_ticket[c] = TicketId(u)}

\* C14: in every deployment mode, a message of a user whose handler is counsellor
\* and whose active ticket is assigned goes, with its text unchanged, to the
\* assigned counsellor (directly or through the room of the two), and the
\* message is handled by the relay branch, not by the assistant.
C14_RelayToCounsellor ==
  [][\A u \in Users :
       (Handled(u) /\ users[u].handler = "counsellor" /\ AssignedTo(u) # {})
         => /\ evt'.branch = "relay"
            /\ \E i \in 1..Len(evt'.sends), c \in AssignedTo(u) :
                 /\ evt'.sends[i].kind = evt'.msg.body
                 /\ evt'.sends[i].to \in {c, "wa_" \o u \o "_" \o c}]_vars

\* C15: a message whose sender is a counsellor is sent, text unchanged, to the
\* recipient given with it and to nobody else, in particular not back to the
\* sender, and no user record is created or changed.
C15_CounsellorMessageToRecipient ==
  [][\A c \in CounsellorNames :
       (evt'.op = "incoming" /\ evt'.user = c /\ is_counsellor(c))
         => /\ evt'.branch = "from_counsellor"
            /\ users' = users
            /\ \E i \in 1..Len(evt'.sends) : evt'.sends[i].kind = evt'.msg.body
            /\ \A i \in 1..Len(evt'.sends) :
                 evt'.sends[i].to = evt'.ret /\ evt'.sends[i].to # c]_vars

\* what get_response returns when llm.invoke failed: the localized
\* technical-difficulties text, or the alert text alone after an alert match
FailureReplies == {"technical_difficulties_message"} \cup
                    {"alert:" \o detect_medical_alert(t) : t \in Texts}

\* C16: when the text-generation call fails while a message of a user in ai_bot
\* is handled, the user is sent a failure message, the handler returns without
\* raising and the user's handler stays ai_bot.
C16_GenerationFailureReported ==
  [][\A u \in Users :
       (Handled(u) /\ users[u].handler = "ai_bot" /\ evt'.branch = "ai_failed")
         => /\ ~evt'.raised
            /\ users'[u].handler = "ai_bot"
            /\ \E i \in 1..Len(evt'.sends) :
                 evt'.sends[i].to = u /\ evt'.sends[i].kind \in FailureReplies]_vars

\* the exception of this step has a cause other than a failed delivery: a button id
\* that does not split in two, a missing language, an escalation without
\* counsellor or without ticket, or an empty text to relay
RaisedForOtherCause ==
  \/ evt'.branch \in {"language", "ai_bot"}
  \/ evt'.branch = "escalate" /\ (Selected = None \/ evt'.ret = None)
  \/ evt'.branch = "relay" /\ evt'.msg.body = ""

\* C17: a failed delivery, including a failed call of the chat application while a
\* counsellor is notified or a message is relayed to a room, never leaves
\* incoming_messages as an exception.
C17_DeliveryFailureContained ==
  [][\A u \in Users :
       (Handled(u) /\ evt'.raised) => RaisedForOtherCause]_vars

\* C18 (as claimed): a write of a handler outside the known ones is refused by the
\* store: the update does not report success and the stored handler is unchanged.
C18_Original ==
  [][(evt'.op = "update_user_handler" /\ evt'.msg.body \notin Handlers)
       => (users' = users /\ evt'.ret # "True")]_vars

\* every call of round_robin so far found a counsellor in the table
NeverEmpty == \A k \in 1..Len(rr_log) : rr_log[k].roster # <<>>

\* position (from 1) of the counsellor returned by call k in the roster of call k
PosOf(k) == CHOOSE i \in 1..Len(rr_log[k].roster) : rr_log[k].roster[i] = rr_log[k].res

\* C19 (as claimed): with a non-empty roster at every call, call number i (from 0)
\* returns roster_i[i mod len(roster_i)], whatever was added or removed in between.
C19_Original ==
  NeverEmpty =>
    \A k \in 1..Len(rr_log) :
      rr_log[k].res = rr_log[k].roster[((k - 1) % Len(rr_log[k].roster)) + 1]

\* C19 (amended): with a non-empty roster at every call, the first call returns the
\* first counsellor and every later call returns the counsellor at the index after
\* the one returned by the call before it, modulo the length of the roster as it
\* is at the later call.
C19_NextAfterLastIndex ==
  NeverEmpty =>
    \A k \in 1..Len(rr_log) :
      /\ rr_log[k].res # None
      /\ rr_log[k].res =
           rr_log[k].roster[IF k = 1 THEN 1
                            ELSE (PosOf(k - 1) % Len(rr_log[k].roster)) + 1]

C19_Witness ==
  /\ Len(rr_log) = 4
  /\ \A k \in 1..3 : rr_log[k].roster = <<"A", "B">>
  /\ rr_log[4].roster = <<"A", "B", "C">>
  /\ <<rr_log[1].res, rr_log[2].res, rr_log[3].res, rr_log[4].res>> = <<"A", "B", "A", "B">>

\* C20: in every reachable state, a user whose handler is counsellor has a ticket
\* row keyed to that user, also after a ticket creation that failed.
C20_EscalatedHasTicket ==
  \A u \in Users :
    (users[u].exists /\ users[u].handler = "counsellor") =>
      (tickets[TicketId(u)].exists /\ tickets[TicketId(u)].user = u)

\* the kinds of send that notify a counsellor of a ticket: the direct message, or
\* the transcript sent to the room created for and joined by the counsellor
Notifications == {"new_ticket", "room_transcript"}

\* C21: in every deployment mode, an escalation that assigns a counsellor to the
\* ticket and does not raise sends that counsellor a notification for it before
\* the handler returns.
C21_AssignedCounsellorNotified ==
  [][\A u \in Users :
       (Escalated(u) /\ ~evt'.raised /\ evt'.ret # None /\ Selected # None
          /\ tickets'[evt'.ret].handler = Selected)
         => \E i \in 1..Len(evt'.sends) :
              evt'.sends[i].to = Selected /\ evt'.sends[i].kind \in Notifications]_vars

\* the send s carries the text that a step of the given branch produces for the
\* user: greeting, validation error or resend notice, completion message, reply
\* of the assistant, escalation notice
OutboundText(s, branch, m) ==
  CASE branch = "language" -> s.kind \in {"greeting:" \o l : l \in Languages}
    [] branch = "onboarding_refused" ->
         s.kind = IF m.type = "text" THEN "validation_error" ELSE "resend_msg"
    [] branch = "onboarding_done" -> s.kind = "onboarding_complete"
    [] branch \in {"ai_bot", "ai_failed"} -> TRUE
    [] branch = "escalate" -> s.kind = "connected_notice"
    [] OTHER -> FALSE

\* C26: in every deployment mode, a step that produces a text for the user
\* (greeting, validation error, completion message, reply of the assistant,
\* escalation notice) and does not raise hands that text to route_message.
C26_OutboundTextRouted ==
  [][\A u \in Users :
       (Handled(u) /\ ~evt'.raised
          /\ evt'.branch \in {"language", "onboarding_refused", "onboarding_done",
                              "ai_bot", "ai_failed", "escalate"})
         => \E i \in 1..Len(evt'.sends) :
              /\ evt'.sends[i].to = u
              /\ OutboundText(evt'.sends[i], evt'.branch, evt'.msg)]_vars

\* the message is a skip token given as the answer to question q: typed, or the
\* title of a button of that question
SkipAnswer(m, q) ==
  /\ m.body \in skip_values
  /\ m.type = "text" \/ (m.type = "reply" /\ m.cat = q)

C25_HandlingTerminates ==
  /\ [](rt.calls <= rt.max_retries + 1 /\ rt.attempt <= rt.max_retries)
  /\ (rt.pc \in {"attempt", "sleep"}) ~> (rt.pc \in {"returned", "raised"})

C25_Witness ==
  /\ rt.pc = "returned" /\ rt.max_retries = 2
  /\ rt.calls = 3 /\ Len(rt.slept) = 2 /\ AllTransient(2)

\* both calls have returned, over one roster of at least two counsellors that
\* nobody changed, having read the same position, one that an earlier call left
SameRead ==
  /\ \A t \in Threads : inflight[t].pc = "done" /\ inflight[t].counsellor_list = roster
  /\ Len(roster) >= 2 /\ roster_changes = 0
  /\ inflight["t1"].idx = inflight["t2"].idx /\ inflight["t1"].idx >= 0

\* C22: the position is unsynchronised: two concurrent calls over a fixed roster
\* of at least two counsellors can read the same position, and when they do both
\* return the same counsellor, the one after that position, and the position is
\* advanced by one, not by two.
C22_LostUpdate ==
  SameRead =>
    /\ inflight["t1"].res = inflight["t2"].res
    /\ inflight["t1"].res = roster[((inflight["t1"].idx + 1) % Len(roster)) + 1]
    /\ last_index = (inflight["t1"].idx + 1) % Len(roster)

C22_Witness ==
  /\ SameRead
  /\ roster = <<"A", "B">> /\ inflight["t1"].idx = 0
  /\ inflight["t1"].res = "B" /\ inflight["t2"].res = "B"
  /\ last_index = 1

\* C29: under concurrent calls while the roster changes, a call never indexes
\* past the end of the roster it fetched: it returns None for an empty roster
\* and a member of its own roster otherwise.
C29_ReturnsOwnRosterMember ==
  \A t \in Threads :
    inflight[t].pc = "done" =>
      \/ inflight[t].res = None /\ inflight[t].counsellor_list = <<>>
      \/ \E i \in 1..Len(inflight[t].counsellor_list) :
           inflight[t].counsellor_list[i] = inflight[t].res

\* two threads have each accepted an answer against the same cursor question q
\* and written the cursor
RacedOn(t1, t2, q) ==
  /\ t1 # t2
  /\ inflight[t1].pc = "next_question" /\ inflight[t2].pc = "next_question"
  /\ Cursor(inflight[t1].user_profile) = q /\ Cursor(inflight[t2].user_profile) = q

C27_NoGenerationBeforeOnboarding ==
  \A t \in Threads :
    inflight[t].pc = "get_ai_response" => users[ConcUser].onboarding_level # None

\* the stage of the lifecycle that a stored row stands for; the row as inserted,
\* handler ai_bot with no cursor, is the new user
Stage(row) ==
  CASE row.handler = "language_selector" -> 1
    [] row.handler = "onboarding" -> 2
    [] row.handler = "ai_bot" -> IF row.onboarding_level = None THEN 0 ELSE 3
    [] row.handler = "counsellor" -> 4
    [] OTHER -> 0

\* C28: the handler of a user only moves forward along new, language_selector,
\* onboarding, ai_bot, counsellor, also when two messages of the user are handled
\* concurrently, each on the profile it read.
C28_HandlerOnlyForward ==
  [][\A u \in Users :
       (users[u].exists /\ users'[u].exists)
         => Stage(users'[u]) >= Stage(users[u])]_vars

====
